---- MODULE Spec2Model ----
(***************************************************************************)
(* Model of p2p/src/conn.rs: the Tracker handed to the owner by listen,    *)
(* the producers calling Tracker::send, and the poll loop thread that      *)
(* multiplexes reads, writes and the close check on one non-blocking       *)
(* socket.                                                                 *)
(***************************************************************************)
EXTENDS Naturals, Sequences, FiniteSets

(***************************************************************************)
(* Bounds of the model.                                                    *)
(***************************************************************************)
\* number of buffers Tracker::send enqueues in Spec
MaxSends == 2
\* number of buffers Tracker::send enqueues in SpecBP: one more than the queue
\* holds, so that an enqueue past the capacity would be seen
MaxSendsBP == 11
\* number of would-block results of the write phase's write_all
MaxWouldBlock == 1
\* number of frames the peer sends
MaxInbound == 1
\* number of close signals pending on the close channel
MaxClose == 2
MaxInboundRx == 2

(***************************************************************************)
(* Program constants.                                                      *)
(***************************************************************************)
SEND_CHANNEL_CAP == 10

Producers == {"p1", "p2"}

\* message type tags (msg::Type)
Ping == 1
Pong == 2

(***************************************************************************)
(* Errors (types::Error), as pairs <<kind, io kind>>.                      *)
(***************************************************************************)
WouldBlock == <<"Connection", "WouldBlock">>
UnexpectedEof == <<"Connection", "UnexpectedEof">>
BrokenPipe == <<"Connection", "BrokenPipe">>
Timeout == <<"Timeout", "">>
Serialization == <<"Serialization", "">>
TooLargeBody == <<"TooLargeBody", "">>

ReadErrors == {UnexpectedEof, Serialization}
HandlerErrors == {WouldBlock, TooLargeBody}
RespErrors == {Timeout, WouldBlock}
WriteErrors == {BrokenPipe}

(***************************************************************************)
(* Framing (msg.rs): a frame is the header followed by the body.           *)
(***************************************************************************)
MsgHeaderBytes(msg_type, msg_len) == <<msg_type, msg_len>>

SizeOfMsgHeader == Len(MsgHeaderBytes(Ping, 0))

write_to_buf(body, msg_type) == MsgHeaderBytes(msg_type, Len(body)) \o body

\* the first k bytes of a buffer
Take(buf, k) == SubSeq(buf, 1, k)

\* bytes put on the socket, each tagged with the phase that wrote it
Tag(src, buf) == [i \in 1..Len(buf) |-> <<src, buf[i]>>]

RECURSIVE Concat(_)
Concat(frames) ==
    IF frames = <<>> THEN <<>> ELSE Head(frames) \o Concat(Tail(frames))

RECURSIVE SumLen(_)
SumLen(frames) ==
    IF frames = <<>> THEN 0 ELSE Len(Head(frames)) + SumLen(Tail(frames))

IsPrefix(s, t) == Len(s) <= Len(t) /\ s = Take(t, Len(s))

VARIABLES
    send_channel,    \* buffers in the bounded send queue (mpsc::sync_channel)
    close_channel,   \* pending close signals (mpsc::channel of ())
    error_channel,   \* errors pushed by the loop and not yet picked up
    tracker,         \* "alive" or "dropped": the owner's Tracker
    sent_bytes,      \* Tracker.sent_bytes
    received_bytes,  \* Tracker.received_bytes
    ppc,             \* per producer: "idle", or "inc" inside Tracker::send
    buf_len,         \* per producer: the local buf_len of Tracker::send
    send_result,     \* per producer: what its last Tracker::send returned
    pc,              \* the poll loop thread's position
    retry_send,      \* the loop's retry slot: <<>> (Err) or <<data>> (Ok)
    msg,             \* the header of the Message being handled
    resp,            \* the Response the handler returned
    rx,              \* inbound frame headers waiting on the socket
    peer_closed,     \* the peer closed its end of the socket
    wire,            \* bytes the loop has put on the socket, tagged by origin
    enqueued,        \* history: the buffers accepted by try_send, in order
    error_log,       \* history: the errors the loop sent on error_tx
    polled,          \* history: what poll_error yielded
    close_published, \* history: a close signal was published
    after_close,     \* history: writes started after a close was published
    nwb, ninbound,   \* history: counts of bounded inputs
    arrived,         \* history: the frame headers the peer sent, in order
    handled,         \* history: the headers handler.consume was called with
    socket_read      \* history: bytes the loop thread took off the socket

vars == <<send_channel, close_channel, error_channel, tracker, sent_bytes,
          received_bytes, ppc, buf_len, send_result, pc, retry_send, msg,
          resp, rx, peer_closed, wire, enqueued, error_log, polled,
          close_published, after_close, nwb, ninbound, arrived, handled,
          socket_read>>

prodVars == <<ppc, buf_len, send_result>>
chanVars == <<send_channel, close_channel, error_channel>>
loopVars == <<pc, retry_send, msg, resp>>
peerVars == <<rx, peer_closed, ninbound>>
histVars == <<enqueued, error_log, polled, close_published, after_close>>
rxVars == <<arrived, handled, socket_read>>

Terminal == {"Closed", "Failed"}
LoopAlive == pc \notin Terminal

NoMsg == [msg_type |-> 0, msg_len |-> 0]
NoResp == [resp_type |-> 0, body |-> <<>>, attachment |-> <<>>]

(***************************************************************************)
(* listen: the channels are created empty, the counters at zero, and the   *)
(* poll thread is started at the top of its loop with an empty retry slot. *)
(***************************************************************************)
Init ==
    /\ send_channel = <<>>
    /\ close_channel = 0
    /\ error_channel = <<>>
    /\ tracker = "alive"
    /\ sent_bytes = 0
    /\ received_bytes = 0
    /\ ppc = [p \in Producers |-> "idle"]
    /\ buf_len = [p \in Producers |-> 0]
    /\ send_result = [p \in Producers |-> "none"]
    /\ pc = "read"
    /\ retry_send = <<>>
    /\ msg = NoMsg
    /\ resp = NoResp
    /\ rx = <<>>
    /\ peer_closed = FALSE
    /\ wire = <<>>
    /\ enqueued = <<>>
    /\ error_log = <<>>
    /\ polled = <<>>
    /\ close_published = FALSE
    /\ after_close = [q |-> 0, r |-> 0]
    /\ nwb = 0
    /\ ninbound = 0
    /\ arrived = <<>>
    /\ handled = <<>>
    /\ socket_read = 0

(***************************************************************************)
(* Tracker::send (conn.rs 161-174).  try_send is the only point where the  *)
(* call touches the queue; the counter is incremented afterwards, under    *)
(* the counter's own lock, so a concurrent producer can run in between.    *)
(***************************************************************************)
\* variant: the capacity check is off by one
SendChannelFull_OffByOne(q) == Len(q) > SEND_CHANNEL_CAP

\* sync_channel(SEND_CHANNEL_CAP): try_send finds the buffer full
SendChannelFull(q) == Len(q) >= SEND_CHANNEL_CAP

\* variant: try_send does not notice that the receiver is gone
TrySendOk_IgnoresReceiver(q) == ~SendChannelFull(q)

\* try_send succeeds: the receiver is alive and there is room
TrySendOk(q) == LoopAlive /\ ~SendChannelFull(q)

\* variant: the counter is incremented before try_send is attempted
SendFail_CountsFirst(p) ==
    /\ send_result' = [send_result EXCEPT ![p] = "SendFailed"]
    /\ sent_bytes' = sent_bytes + Len(write_to_buf(<<7>>, Ping))
    /\ UNCHANGED <<send_channel, enqueued, ppc, buf_len>>

\* try_send(buf)? returned the error: send returns it, nothing else runs
SendFail(p) ==
    /\ send_result' = [send_result EXCEPT ![p] = "SendFailed"]
    /\ UNCHANGED <<send_channel, enqueued, ppc, buf_len, sent_bytes>>

\* variant: buf_len counts the body only, not the header
SendEnqueue_BodyLen(p, buf) ==
    /\ send_channel' = Append(send_channel, buf)
    /\ enqueued' = Append(enqueued, buf)
    /\ buf_len' = [buf_len EXCEPT ![p] = Len(buf) - SizeOfMsgHeader]
    /\ ppc' = [ppc EXCEPT ![p] = "inc"]
    /\ send_result' = [send_result EXCEPT ![p] = "none"]
    /\ UNCHANGED sent_bytes

\* try_send(buf) accepted the buffer; the call goes on to the increment
SendEnqueue(p, buf) ==
    /\ send_channel' = Append(send_channel, buf)
    /\ enqueued' = Append(enqueued, buf)
    /\ buf_len' = [buf_len EXCEPT ![p] = Len(buf)]
    /\ ppc' = [ppc EXCEPT ![p] = "inc"]
    /\ send_result' = [send_result EXCEPT ![p] = "none"]
    /\ UNCHANGED sent_bytes

SendTry(p, body, msg_type) ==
    /\ UNCHANGED rxVars
    /\ tracker = "alive"
    /\ ppc[p] = "idle"
    /\ IF TrySendOk(send_channel)
       THEN SendEnqueue(p, write_to_buf(body, msg_type))
       ELSE SendFail(p)
    /\ UNCHANGED <<close_channel, error_channel, tracker, received_bytes>>
    /\ UNCHANGED <<loopVars, peerVars, wire, error_log, polled>>
    /\ UNCHANGED <<close_published, after_close, nwb>>

\* sent_bytes.inc(buf_len as u64); Ok(())
SendInc(p) ==
    /\ UNCHANGED rxVars
    /\ ppc[p] = "inc"
    /\ sent_bytes' = sent_bytes + buf_len[p]
    /\ ppc' = [ppc EXCEPT ![p] = "idle"]
    /\ send_result' = [send_result EXCEPT ![p] = "Ok"]
    /\ UNCHANGED <<buf_len, chanVars, tracker, received_bytes>>
    /\ UNCHANGED <<loopVars, peerVars, wire, histVars, nwb>>

(***************************************************************************)
(* The owner: publishing the close signal on Tracker.close_channel,        *)
(* picking an error up from Tracker.error_channel, dropping the Tracker.   *)
(***************************************************************************)
\* close_channel.send(()): fails, and is ignored, once close_rx is gone
Close ==
    /\ UNCHANGED rxVars
    /\ tracker = "alive"
    /\ IF LoopAlive
       THEN /\ close_channel' = close_channel + 1
            /\ close_published' = TRUE
       ELSE UNCHANGED <<close_channel, close_published>>
    /\ UNCHANGED <<send_channel, error_channel, tracker, sent_bytes>>
    /\ UNCHANGED <<received_bytes, prodVars, loopVars, peerVars, wire>>
    /\ UNCHANGED <<enqueued, error_log, polled, after_close, nwb>>

\* error_channel.try_recv() finding an error
PollError ==
    /\ UNCHANGED rxVars
    /\ tracker = "alive"
    /\ error_channel # <<>>
    /\ polled' = Append(polled, Head(error_channel))
    /\ error_channel' = Tail(error_channel)
    /\ UNCHANGED <<send_channel, close_channel, tracker, sent_bytes>>
    /\ UNCHANGED <<received_bytes, prodVars, loopVars, peerVars, wire>>
    /\ UNCHANGED <<enqueued, error_log, close_published, after_close>>
    /\ UNCHANGED nwb

\* the Tracker goes out of scope: send_tx, close_tx and error_rx are dropped
DropTracker ==
    /\ UNCHANGED rxVars
    /\ tracker = "alive"
    /\ \A p \in Producers : ppc[p] = "idle"
    /\ tracker' = "dropped"
    /\ UNCHANGED <<chanVars, sent_bytes, received_bytes, prodVars>>
    /\ UNCHANGED <<loopVars, peerVars, wire, histVars, nwb>>

(***************************************************************************)
(* The peer, at the other end of the socket.                               *)
(***************************************************************************)
PeerSend(h) ==
    /\ ~peer_closed
    /\ rx' = Append(rx, h)
    /\ arrived' = Append(arrived, h)
    /\ UNCHANGED <<handled, socket_read>>
    /\ ninbound' = ninbound + 1
    /\ UNCHANGED <<peer_closed, chanVars, tracker, sent_bytes>>
    /\ UNCHANGED <<received_bytes, prodVars, loopVars, wire, histVars>>
    /\ UNCHANGED nwb

PeerClose ==
    /\ UNCHANGED rxVars
    /\ ~peer_closed
    /\ peer_closed' = TRUE
    /\ UNCHANGED <<rx, ninbound, chanVars, tracker, sent_bytes>>
    /\ UNCHANGED <<received_bytes, prodVars, loopVars, wire, histVars>>
    /\ UNCHANGED nwb

(***************************************************************************)
(* The poll loop thread (conn.rs 225-275).                                 *)
(***************************************************************************)
\* variant: every error is taken for a would-block and gives None
try_break_NoBreak(ok, e) == IF ok THEN "some" ELSE "none"

\* variant: a would-block error breaks the loop like any other error
try_break_WouldBlockFatal(ok, e) == IF ok THEN "some" ELSE "break"

\* try_break!: Ok(v) gives Some(v), a would-block Connection error gives
\* None, every other error is sent on the error channel and breaks the loop
try_break(ok, e) ==
    IF ok THEN "some" ELSE IF e = WouldBlock THEN "none" ELSE "break"

\* variant: the error is sent but the loop is not left
Break_NoExit(e) ==
    /\ error_log' = Append(error_log, e)
    /\ error_channel' = IF tracker = "alive"
                        THEN Append(error_channel, e)
                        ELSE error_channel
    /\ pc' = "close"

\* let _ = $chan.send(e); break;  (the send fails once error_rx is dropped)
Break(e) ==
    /\ error_log' = Append(error_log, e)
    /\ error_channel' = IF tracker = "alive"
                        THEN Append(error_channel, e)
                        ELSE error_channel
    /\ pc' = "Failed"

\* the bytes Response::write puts on the socket: header, body, attachment
ResponseBytes(r) ==
    MsgHeaderBytes(r.resp_type, Len(r.body)) \o r.body \o r.attachment

\* a write started after a close signal was published is counted
CountAfterClose(src) ==
    after_close' = IF close_published
                   THEN [after_close EXCEPT ![src] = @ + 1]
                   ELSE after_close

\* variant: only the body length is counted
ReceivedInc_BodyOnly(h) == h.msg_len

\* received_bytes.inc(size_of::<MsgHeader>() as u64 + msg.header.msg_len)
ReceivedInc(h) == SizeOfMsgHeader + h.msg_len

\* the bytes read_header itself takes off the socket: none when it would
\* block or meets the end of the stream at a frame boundary, else a header
HeaderRead(ok, e) ==
    IF ~ok /\ e \in {WouldBlock, UnexpectedEof} THEN 0 ELSE SizeOfMsgHeader

\* the body bytes a handler call takes off the socket through Message::body:
\* all msg_len of them, or none when it rejects the frame with a fatal error
BodyRead(ret, m) ==
    IF ret.kind = "err" /\ ret.err # WouldBlock THEN 0 ELSE m.msg_len

\* variant: a frame that announces no body is not handed to the handler
ReadHeader_SkipsEmpty(ok, e) ==
    /\ pc = "read"
    /\ ok => rx # <<>>
    /\ (~ok /\ e = WouldBlock) => (rx = <<>> /\ ~peer_closed)
    /\ (~ok /\ e = UnexpectedEof) => (rx = <<>> /\ peer_closed)
    /\ (~ok /\ e = Serialization) => rx # <<>>
    /\ socket_read' = socket_read + HeaderRead(ok, e)
    /\ UNCHANGED <<arrived, handled>>
    /\ CASE try_break(ok, e) = "some" ->
              /\ msg' = Head(rx)
              /\ rx' = Tail(rx)
              /\ received_bytes' = received_bytes + ReceivedInc(Head(rx))
              /\ pc' = IF Head(rx).msg_len = 0 THEN "write" ELSE "consume"
              /\ UNCHANGED <<error_log, error_channel>>
         [] try_break(ok, e) = "none" ->
              /\ pc' = "write"
              /\ UNCHANGED <<msg, rx, received_bytes>>
              /\ UNCHANGED <<error_log, error_channel>>
         [] try_break(ok, e) = "break" ->
              /\ Break(e)
              /\ UNCHANGED <<msg, rx, received_bytes>>
    /\ UNCHANGED <<send_channel, close_channel, tracker, sent_bytes>>
    /\ UNCHANGED <<prodVars, retry_send, resp, peer_closed>>
    /\ UNCHANGED <<ninbound, wire, enqueued, polled, close_published>>
    /\ UNCHANGED <<after_close, nwb>>

\* phase R: read_header(conn, None), then the received-bytes increment
ReadHeader(ok, e) ==
    /\ pc = "read"
    /\ ok => rx # <<>>
    /\ (~ok /\ e = WouldBlock) => (rx = <<>> /\ ~peer_closed)
    /\ (~ok /\ e = UnexpectedEof) => (rx = <<>> /\ peer_closed)
    /\ (~ok /\ e = Serialization) => rx # <<>>
    /\ socket_read' = socket_read + HeaderRead(ok, e)
    /\ UNCHANGED <<arrived, handled>>
    /\ CASE try_break(ok, e) = "some" ->
              /\ msg' = Head(rx)
              /\ rx' = Tail(rx)
              /\ received_bytes' = received_bytes + ReceivedInc(Head(rx))
              /\ pc' = "consume"
              /\ UNCHANGED <<error_log, error_channel>>
         [] try_break(ok, e) = "none" ->
              /\ pc' = "write"
              /\ UNCHANGED <<msg, rx, received_bytes>>
              /\ UNCHANGED <<error_log, error_channel>>
         [] try_break(ok, e) = "break" ->
              /\ Break(e)
              /\ UNCHANGED <<msg, rx, received_bytes>>
    /\ UNCHANGED <<send_channel, close_channel, tracker, sent_bytes>>
    /\ UNCHANGED <<prodVars, retry_send, resp, peer_closed>>
    /\ UNCHANGED <<ninbound, wire, enqueued, polled, close_published>>
    /\ UNCHANGED <<after_close, nwb>>

\* variant: the reply is kept back and the write phase runs first
Consume_DefersReply(ret) ==
    /\ pc = "consume"
    /\ msg' = NoMsg
    /\ handled' = Append(handled, msg)
    /\ socket_read' = socket_read + BodyRead(ret, msg)
    /\ UNCHANGED arrived
    /\ CASE try_break(ret.kind # "err", ret.err) = "some" ->
              /\ IF ret.kind = "some"
                 THEN resp' = ret.resp /\ pc' = "write"
                 ELSE resp' = resp /\ pc' = "write"
              /\ UNCHANGED <<error_log, error_channel>>
         [] try_break(ret.kind # "err", ret.err) = "none" ->
              /\ pc' = "write"
              /\ UNCHANGED <<resp, error_log, error_channel>>
         [] try_break(ret.kind # "err", ret.err) = "break" ->
              /\ Break(ret.err)
              /\ UNCHANGED resp
    /\ UNCHANGED <<send_channel, close_channel, tracker, sent_bytes>>
    /\ UNCHANGED <<received_bytes, prodVars, retry_send, peerVars, wire>>
    /\ UNCHANGED <<enqueued, polled, close_published, after_close>>
    /\ UNCHANGED nwb

\* handler.consume(msg) returned ret
Consume(ret) ==
    /\ pc = "consume"
    /\ msg' = NoMsg
    /\ handled' = Append(handled, msg)
    /\ socket_read' = socket_read + BodyRead(ret, msg)
    /\ UNCHANGED arrived
    /\ CASE try_break(ret.kind # "err", ret.err) = "some" ->
              /\ IF ret.kind = "some"
                 THEN resp' = ret.resp /\ pc' = "respond"
                 ELSE resp' = resp /\ pc' = "write"
              /\ UNCHANGED <<error_log, error_channel>>
         [] try_break(ret.kind # "err", ret.err) = "none" ->
              /\ pc' = "write"
              /\ UNCHANGED <<resp, error_log, error_channel>>
         [] try_break(ret.kind # "err", ret.err) = "break" ->
              /\ Break(ret.err)
              /\ UNCHANGED resp
    /\ UNCHANGED <<send_channel, close_channel, tracker, sent_bytes>>
    /\ UNCHANGED <<received_bytes, prodVars, retry_send, peerVars, wire>>
    /\ UNCHANGED <<enqueued, polled, close_published, after_close>>
    /\ UNCHANGED nwb

\* resp.write(): Ok after all of the reply, or error e after k bytes of it
Respond(ok, e, k) ==
    /\ UNCHANGED rxVars
    /\ pc = "respond"
    /\ k \in 0..Len(ResponseBytes(resp))
    /\ ok => k = Len(ResponseBytes(resp))
    \* only reading the attachment file can fail with would-block
    /\ (~ok /\ e = WouldBlock) =>
           /\ resp.attachment # <<>>
           /\ k >= Len(ResponseBytes(resp)) - Len(resp.attachment)
    /\ ~ok => k < Len(ResponseBytes(resp))
    /\ wire' = wire \o Tag("r", Take(ResponseBytes(resp), k))
    /\ CountAfterClose("r")
    /\ resp' = NoResp
    /\ IF try_break(ok, e) = "break"
       THEN Break(e)
       ELSE pc' = "write" /\ UNCHANGED <<error_log, error_channel>>
    /\ UNCHANGED <<send_channel, close_channel, tracker, sent_bytes>>
    /\ UNCHANGED <<received_bytes, prodVars, retry_send, msg>>
    /\ UNCHANGED <<peerVars, enqueued, polled, close_published>>
    /\ UNCHANGED nwb

\* retry_send.or_else(|_| send_rx.try_recv()): <<>> stands for Err
MaybeData ==
    IF retry_send # <<>> THEN retry_send
    ELSE IF send_channel # <<>> THEN <<Head(send_channel)>>
    ELSE <<>>

\* variant: try_recv is evaluated eagerly, also when the slot is occupied
AfterTryRecv_Eager ==
    IF send_channel # <<>> THEN Tail(send_channel) ELSE send_channel

\* what the or_else leaves in the queue: try_recv runs only on Err(())
AfterTryRecv ==
    IF retry_send = <<>> /\ send_channel # <<>>
    THEN Tail(send_channel)
    ELSE send_channel

\* variant: the buffer is dropped when its write would block
RetainForRetry_Drops(data) == <<>>

\* conn.write_all(&data[..]) stopped by would-block: the buffer is kept
RetainForRetry(data) == <<data>>

\* phase W, no buffer to write
WriteNothing ==
    /\ UNCHANGED rxVars
    /\ pc = "write"
    /\ MaybeData = <<>>
    /\ retry_send' = <<>>
    /\ pc' = "close"
    /\ UNCHANGED <<chanVars, tracker, sent_bytes, received_bytes>>
    /\ UNCHANGED <<prodVars, msg, resp, peerVars, wire>>
    /\ UNCHANGED <<histVars, nwb>>

\* phase W with a buffer: write_all returns Ok after the whole buffer, or
\* error e after the socket accepted k bytes of it
WriteData(ok, e, k) ==
    /\ UNCHANGED rxVars
    /\ pc = "write"
    /\ MaybeData # <<>>
    /\ LET data == MaybeData[1] IN
       /\ k \in 0..Len(data)
       /\ ok <=> k = Len(data)
       /\ send_channel' = AfterTryRecv
       /\ wire' = wire \o Tag("q", Take(data, k))
       /\ CountAfterClose("q")
       /\ CASE try_break(ok, e) = "some" ->
                 /\ retry_send' = <<>>
                 /\ pc' = "close"
                 /\ UNCHANGED <<error_log, error_channel, nwb>>
            [] try_break(ok, e) = "none" ->
                 /\ retry_send' = RetainForRetry(data)
                 /\ pc' = "close"
                 /\ nwb' = nwb + 1
                 /\ UNCHANGED <<error_log, error_channel>>
            [] try_break(ok, e) = "break" ->
                 /\ retry_send' = <<>>
                 /\ Break(e)
                 /\ UNCHANGED nwb
    /\ UNCHANGED <<close_channel, tracker, sent_bytes, received_bytes>>
    /\ UNCHANGED <<prodVars, msg, resp, peerVars>>
    /\ UNCHANGED <<enqueued, polled, close_published>>

\* variant: the signal is taken from the channel but the loop goes on
ClosePhase_NoBreak ==
    /\ UNCHANGED rxVars
    /\ pc = "close"
    /\ close_channel' = IF close_channel > 0 THEN close_channel - 1 ELSE 0
    /\ pc' = "read"
    /\ UNCHANGED <<send_channel, error_channel, tracker, sent_bytes>>
    /\ UNCHANGED <<received_bytes, prodVars, retry_send, msg, resp>>
    /\ UNCHANGED <<peerVars, wire, histVars, nwb>>

\* variant: leaving on the close signal is reported like an error
ClosePhase_Reports ==
    /\ UNCHANGED rxVars
    /\ pc = "close"
    /\ IF close_channel > 0
       THEN /\ close_channel' = close_channel - 1
            /\ pc' = "Closed"
            /\ error_log' = Append(error_log, BrokenPipe)
            /\ error_channel' = Append(error_channel, BrokenPipe)
       ELSE /\ close_channel' = close_channel
            /\ pc' = "read"
            /\ UNCHANGED <<error_log, error_channel>>
    /\ UNCHANGED <<send_channel, tracker, sent_bytes, received_bytes>>
    /\ UNCHANGED <<prodVars, retry_send, msg, resp, peerVars, wire>>
    /\ UNCHANGED <<enqueued, polled, close_published, after_close, nwb>>

\* phase C: close_rx.try_recv(); Ok breaks, Empty or Disconnected goes on
\* to the sleep and the next iteration
ClosePhase ==
    /\ UNCHANGED rxVars
    /\ pc = "close"
    /\ IF close_channel > 0
       THEN close_channel' = close_channel - 1 /\ pc' = "Closed"
       ELSE close_channel' = close_channel /\ pc' = "read"
    /\ UNCHANGED <<send_channel, error_channel, tracker, sent_bytes>>
    /\ UNCHANGED <<received_bytes, prodVars, retry_send, msg, resp>>
    /\ UNCHANGED <<peerVars, wire, histVars, nwb>>

(***************************************************************************)
(* Inputs.                                                                 *)
(***************************************************************************)
SendBodies == {<<>>, <<7>>}
InboundHeaders == {[msg_type |-> Ping, msg_len |-> 1]}
Responses ==
    {[resp_type |-> Pong, body |-> <<9>>, attachment |-> <<8>>]}
HandlerReturns ==
    {[kind |-> "none", resp |-> NoResp, err |-> <<"", "">>]}
    \cup {[kind |-> "some", resp |-> r, err |-> <<"", "">>] : r \in Responses}
    \cup {[kind |-> "err", resp |-> NoResp, err |-> e] : e \in HandlerErrors}
\* how many bytes a failing write may have put on the socket before it failed
PartialCounts == 0..1

Producer ==
    \/ \E body \in SendBodies :
           Len(enqueued) < MaxSends /\ SendTry("p1", body, Ping)
    \/ \E p \in Producers : SendInc(p)

Owner ==
    \/ close_channel < MaxClose /\ Close
    \/ PollError
    \/ DropTracker

Peer ==
    \/ \E h \in InboundHeaders : ninbound < MaxInbound /\ PeerSend(h)
    \/ PeerClose

Loop ==
    \/ ReadHeader(TRUE, WouldBlock)
    \/ \E e \in ReadErrors \cup {WouldBlock} : ReadHeader(FALSE, e)
    \/ \E ret \in HandlerReturns : Consume(ret)
    \/ Respond(TRUE, WouldBlock, Len(ResponseBytes(resp)))
    \/ \E e \in RespErrors, k \in PartialCounts : Respond(FALSE, e, k)
    \/ WriteNothing
    \/ \E k \in 2..3 : WriteData(TRUE, WouldBlock, k)
    \/ \E e \in WriteErrors, k \in PartialCounts : WriteData(FALSE, e, k)
    \/ \E k \in PartialCounts :
           nwb < MaxWouldBlock /\ WriteData(FALSE, WouldBlock, k)
    \/ ClosePhase

Next == Producer \/ Owner \/ Peer \/ Loop

Spec == Init /\ [][Next]_vars

(***************************************************************************)
(* Backpressure: two producers keep sending one kind of frame while the    *)
(* loop drains the queue at its own pace; the peer is silent and accepts   *)
(* a buffer whole or not at all.                                           *)
(***************************************************************************)
ProducerBP ==
    \/ \E p \in Producers :
           Len(enqueued) < MaxSendsBP /\ SendTry(p, <<7>>, Ping)
    \/ \E p \in Producers : SendInc(p)

LoopBP ==
    \/ ReadHeader(FALSE, WouldBlock)
    \/ WriteNothing
    \/ WriteData(TRUE, WouldBlock, 3)
    \/ nwb < MaxWouldBlock /\ WriteData(FALSE, WouldBlock, 0)
    \/ ClosePhase

NextBP == ProducerBP \/ LoopBP

SpecBP == Init /\ [][NextBP]_vars

(***************************************************************************)
(* The poll thread is scheduled fairly: whenever it has a step to take it  *)
(* eventually takes one (every call it makes returns).  The socket never   *)
(* fails here other than by would-block or by the peer closing, so that    *)
(* no failure helps the loop to its end.                                   *)
(***************************************************************************)
ProducerFair ==
    \/ Len(enqueued) < MaxSends /\ SendTry("p1", <<7>>, Ping)
    \/ \E p \in Producers : SendInc(p)

OwnerFair ==
    \/ close_channel < MaxClose /\ Close
    \/ DropTracker

LoopFair ==
    \/ ReadHeader(TRUE, WouldBlock)
    \/ \E e \in {WouldBlock, UnexpectedEof} : ReadHeader(FALSE, e)
    \/ \E ret \in HandlerReturns : Consume(ret)
    \/ Respond(TRUE, WouldBlock, Len(ResponseBytes(resp)))
    \/ WriteNothing
    \/ WriteData(TRUE, WouldBlock, 3)
    \/ \E k \in PartialCounts :
           nwb < MaxWouldBlock /\ WriteData(FALSE, WouldBlock, k)
    \/ ClosePhase

NextFair == ProducerFair \/ OwnerFair \/ Peer \/ LoopFair

FairSpec == Init /\ [][NextFair]_vars /\ WF_vars(LoopFair)

(***************************************************************************)
(* Outbound traffic under a fairly scheduled loop: the producer sends, the *)
(* owner may publish the close signal and the peer may close; the peer     *)
(* sends nothing, and the socket accepts a buffer in the end, having       *)
(* blocked at most MaxWouldBlock times.                                    *)
(***************************************************************************)
OwnerOut == close_channel < MaxClose /\ Close

LoopOut ==
    \/ \E e \in {WouldBlock, UnexpectedEof} : ReadHeader(FALSE, e)
    \/ WriteNothing
    \/ WriteData(TRUE, WouldBlock, 3)
    \/ \E k \in PartialCounts :
           nwb < MaxWouldBlock /\ WriteData(FALSE, WouldBlock, k)
    \/ ClosePhase

NextOut == ProducerFair \/ OwnerOut \/ PeerClose \/ LoopOut

FairSpecOut == Init /\ [][NextOut]_vars /\ WF_vars(LoopOut)

(***************************************************************************)
(* As Spec, with every send carrying the same body: the owner, the peer    *)
(* and the loop with all the outcomes of its calls.                        *)
(***************************************************************************)
NextOneKind == ProducerFair \/ Owner \/ Peer \/ Loop

SpecOneKind == Init /\ [][NextOneKind]_vars

(***************************************************************************)
(* Inbound traffic: the peer sends up to MaxInboundRx frames of two kinds  *)
(* and may close; the loop reads, hands each frame to the handler and      *)
(* writes the replies.  Nothing is sent through the Tracker.               *)
(***************************************************************************)
InboundHeadersRx ==
    {[msg_type |-> Ping, msg_len |-> 1], [msg_type |-> Pong, msg_len |-> 0]}

PeerRx ==
    \/ \E h \in InboundHeadersRx : ninbound < MaxInboundRx /\ PeerSend(h)
    \/ PeerClose

OwnerRx ==
    \/ close_channel < MaxClose /\ Close
    \/ PollError

LoopRx ==
    \/ ReadHeader(TRUE, WouldBlock)
    \/ \E e \in ReadErrors \cup {WouldBlock} : ReadHeader(FALSE, e)
    \/ \E ret \in HandlerReturns : Consume(ret)
    \/ Respond(TRUE, WouldBlock, Len(ResponseBytes(resp)))
    \/ \E e \in RespErrors, k \in PartialCounts : Respond(FALSE, e, k)
    \/ WriteNothing
    \/ ClosePhase

NextRx == PeerRx \/ OwnerRx \/ LoopRx

SpecRx == Init /\ [][NextRx]_vars

(***************************************************************************)
(* Properties.                                                             *)
(***************************************************************************)
\* the bytes written by phase src, in the order they reached the socket
BytesOf(src) ==
    LET sel == SelectSeq(wire, LAMBDA c : c[1] = src)
    IN  [i \in 1..Len(sel) |-> sel[i][2]]

\* C1: the bytes the write phase has put on the socket are a prefix of the
\* concatenation of the enqueued frames in enqueue order, also after a write
\* that hit would-block when part of the buffer was already accepted.
C1_WriteOrder == IsPrefix(BytesOf("q"), Concat(enqueued))

\* the frame every producer of SpecBP sends
FrameBP == write_to_buf(<<7>>, Ping)

\* producer p is not inside a Tracker::send call
Idle(p) == ppc[p] = "idle"

\* the lengths counted so far by the producers that are between try_send and
\* the increment
RECURSIVE PendingInc(_)
PendingInc(ps) ==
    IF ps = {} THEN 0
    ELSE LET p == CHOOSE x \in ps : TRUE
         IN  (IF ppc[p] = "inc" THEN buf_len[p] ELSE 0)
             + PendingInc(ps \ {p})

\* C2: the send queue never holds more than SEND_CHANNEL_CAP buffers, with
\* two producers sending concurrently; a send issued on a full queue is not
\* blocked (the call can always be taken) and returns the error at once,
\* leaving the queue as it was.
C2_QueueBounded ==
    /\ [](Len(send_channel) <= SEND_CHANNEL_CAP)
    /\ [](\A p \in Producers :
            (Idle(p) /\ Len(send_channel) = SEND_CHANNEL_CAP)
                => ENABLED SendTry(p, <<7>>, Ping))
    /\ [][\A p \in Producers :
            (Len(send_channel) = SEND_CHANNEL_CAP /\ SendTry(p, <<7>>, Ping))
                => /\ send_result'[p] = "SendFailed"
                   /\ Idle(p)'
                   /\ send_channel' = send_channel]_vars

\* a send has just failed on a full queue
C2_Witness ==
    /\ Len(send_channel) = SEND_CHANNEL_CAP
    /\ \E p \in Producers : send_result[p] = "SendFailed"

\* C3: a send that fails on a full queue returns SendFailed and leaves
\* sent_bytes, received_bytes and the queue unchanged; after 10 completed
\* sends with nothing dequeued the next send fails and sent_bytes is the sum
\* of the 10 encoded lengths.
C3_FailedSendInert ==
    /\ [][\A p \in Producers :
            (SendTry(p, <<7>>, Ping) /\ send_result'[p] = "SendFailed")
                => /\ sent_bytes' = sent_bytes
                   /\ received_bytes' = received_bytes
                   /\ send_channel' = send_channel]_vars
    /\ []((/\ Len(enqueued) = SEND_CHANNEL_CAP
           /\ Len(send_channel) = SEND_CHANNEL_CAP
           /\ \A p \in Producers : Idle(p))
            => /\ ~TrySendOk(send_channel)
               /\ sent_bytes = SumLen(enqueued))

\* the 11th send has failed after 10 completed sends, nothing dequeued
C3_Witness ==
    /\ Len(enqueued) = SEND_CHANNEL_CAP
    /\ Len(send_channel) = SEND_CHANNEL_CAP
    /\ \A p \in Producers : Idle(p)
    /\ send_result["p1"] = "SendFailed"
    /\ sent_bytes = SEND_CHANNEL_CAP * Len(FrameBP)

\* C4: sent_bytes is changed only by the increment of a successful send, by
\* the encoded length of the frame it enqueued: sent_bytes plus the lengths
\* still to be counted by producers inside send is the sum of the encoded
\* lengths of the frames enqueued, so with no send in progress the two are
\* equal.
C4_SentBytesExact ==
    /\ sent_bytes + PendingInc(Producers) = SumLen(enqueued)
    /\ (\A p \in Producers : Idle(p)) => sent_bytes = SumLen(enqueued)

\* both producers have completed sends, and one is again inside send
C4_Witness ==
    /\ send_result["p1"] = "Ok"
    /\ ppc["p2"] = "inc"
    /\ sent_bytes >= 2 * Len(FrameBP)
    /\ Len(enqueued) > sent_bytes \div Len(FrameBP)

\* C5: once a close signal is published the loop reaches Closed or Failed,
\* given a fairly scheduled loop thread; a terminal loop stays as it is, so
\* a second signal, published before or after, changes nothing and reports
\* no error.
C5_CloseTerminates ==
    /\ close_published ~> (pc \in Terminal)
    /\ [][(pc \in Terminal)
            => (pc' = pc /\ error_log' = error_log /\ wire' = wire)]_vars

\* the loop left on the first signal while a second one was published
C5_Witness == pc = "Closed" /\ close_channel = 1 /\ error_log = <<>>

C7_CleanClose ==
    pc = "Closed" => (error_log = <<>> /\ error_channel = <<>> /\ polled = <<>>)

\* the loop left on the close signal after an exchange with the peer
C7_Witness ==
    /\ pc = "Closed"
    /\ received_bytes > 0
    /\ BytesOf("r") # <<>>
    /\ BytesOf("q") # <<>>

\* C8: at most one error is ever sent on the error channel, and from then on
\* the loop does nothing: its position, its retry slot, the socket, the send
\* queue, the received-bytes counter and the error log stay as they are.
C8_OneErrorThenInert ==
    /\ [](Len(error_log) <= 1)
    /\ [][error_log # <<>>
            => /\ UNCHANGED <<pc, retry_send, msg, resp, wire>>
               /\ UNCHANGED <<send_channel, received_bytes, error_log>>
               /\ Len(rx') >= Len(rx)]_vars

\* an error was pushed while a buffer and an inbound frame were waiting
C8_Witness ==
    /\ Len(error_log) = 1
    /\ pc = "Failed"
    /\ send_channel # <<>>
    /\ rx # <<>>

\* C9 as claimed: whatever error the handler returns, the loop pushes it and
\* leaves at once.
C9_AnyHandlerErrorFatal ==
    [][\A ret \in HandlerReturns :
         (ret.kind = "err" /\ Consume(ret))
             => (pc' = "Failed" /\ error_log' = Append(error_log, ret.err))]_vars

\* C9 amended: every error the handler returns other than a would-block
\* Connection error is pushed and ends the loop in that step, before the
\* write phase and the close phase; a would-block Connection error from the
\* handler is taken for "no reply": nothing is pushed and the iteration goes
\* on to the write phase.
C9_HandlerErrorFatalButWouldBlock ==
    [][\A ret \in HandlerReturns :
         (ret.kind = "err" /\ Consume(ret))
             => IF ret.err = WouldBlock
                THEN pc' = "write" /\ error_log' = error_log
                ELSE /\ pc' = "Failed"
                     /\ error_log' = Append(error_log, ret.err)
                     /\ wire' = wire
                     /\ close_channel' = close_channel]_vars

\* the handler's error ended the loop
C9_Witness ==
    /\ pc = "Failed"
    /\ error_log = <<TooLargeBody>>
    /\ received_bytes > 0

\* C10: once the Tracker is dropped the loop eventually terminates.
C10_DropTerminates == (tracker = "dropped") ~> (pc \in Terminal)

\* C11: Closed and Failed are terminal and the connection is then inert: the
\* loop stays where it is, every send issued after the loop has left fails
\* with SendFailed and leaves sent_bytes and the queue as they were, nothing
\* more reaches the socket, and poll_error yields the first error at most
\* once and nothing afterwards.
C11_TerminalInert ==
    /\ [][(pc \in Terminal) => (pc' = pc /\ wire' = wire)]_vars
    /\ [][\A body \in SendBodies :
            ((pc \in Terminal) /\ Idle("p1") /\ SendTry("p1", body, Ping))
                => /\ send_result'["p1"] = "SendFailed"
                   /\ Idle("p1")'
                   /\ sent_bytes' = sent_bytes
                   /\ send_channel' = send_channel
                   /\ enqueued' = enqueued]_vars
    /\ [](Len(polled) <= 1)
    /\ [](polled # <<>> => (polled[1] = error_log[1] /\ error_channel = <<>>))

\* a send failed on a connection that had failed, after a send that had
\* succeeded, and poll_error has handed the error over
C11_Witness ==
    /\ pc = "Failed"
    /\ send_result["p1"] = "SendFailed"
    /\ Idle("p1")
    /\ sent_bytes = SumLen(enqueued)
    /\ sent_bytes > 0
    /\ polled = error_log
    /\ polled # <<>>

\* the bytes a step has added to the socket
Written == SubSeq(wire', Len(wire) + 1, Len(wire'))

\* C12: a reply the handler returned is written before the write phase does
\* anything: while a reply is pending no queued byte reaches the socket,
\* nothing is dequeued and the retry slot is not touched, so every buffer
\* enqueued after the handler returned is written after the reply; the write
\* phase of an iteration starts with no reply pending, and a reply write that
\* returned Ok has put the whole reply on the socket, ahead of the dequeue of
\* that iteration.
C12_ReplyBeforeQueued ==
    /\ [](pc = "write" => resp = NoResp)
    /\ [](resp # NoResp => pc = "respond")
    /\ [][(resp # NoResp)
            => /\ \A i \in 1..Len(Written) : Written[i][1] = "r"
               /\ retry_send' = retry_send
               /\ IsPrefix(send_channel, send_channel')]_vars
    /\ [][Respond(TRUE, WouldBlock, Len(ResponseBytes(resp)))
            => /\ Written = Tag("r", ResponseBytes(resp))
               /\ pc' = "write"
               /\ resp' = NoResp]_vars

\* an iteration wrote a reply and then a queued buffer: the socket has the
\* whole reply followed by the buffer
C12_Witness ==
    /\ pc = "close"
    /\ Len(enqueued) = 1
    /\ \E r \in Responses :
           wire = Tag("r", ResponseBytes(r)) \o Tag("q", enqueued[1])

\* the headers read_header has decoded so far: what has left the socket
Decoded == Take(arrived, Len(arrived) - Len(rx))

\* C13: handler.consume is called exactly once for every frame whose header
\* was decoded, in the order the frames arrived (every handler call having
\* taken the announced body off the socket): the handled frames are the
\* decoded ones, but for the frame decoded in this iteration and about to be
\* handed over; and at most one frame is decoded per iteration, a header
\* being decoded only in the read phase, which is entered again only from
\* the close phase.
C13_HandlerOncePerFrame ==
    /\ [](arrived = Decoded \o rx)
    /\ [](pc = "consume" => Decoded = Append(handled, msg))
    /\ [](pc # "consume" => Decoded = handled)
    /\ [][handled' # handled
            => (pc = "consume" /\ handled' = Append(handled, msg))]_vars
    /\ [][(pc' = "consume" /\ pc # "consume") => pc = "read"]_vars
    /\ [][(pc' = "read" /\ pc # "read") => pc = "close"]_vars
    /\ [][(pc = "consume") => pc' # "read"]_vars

\* two frames of different kinds were handled, in the order they arrived
C13_Witness ==
    /\ Len(handled) = 2
    /\ handled[1] # handled[2]
    /\ handled = arrived
    /\ pc = "close"

\* the bytes the frames with headers hs take on the socket, header and body
RECURSIVE FrameBytes(_)
FrameBytes(hs) ==
    IF hs = <<>> THEN 0
    ELSE SizeOfMsgHeader + Head(hs).msg_len + FrameBytes(Tail(hs))

\* C14: received_bytes changes only in the read phase, when a header has
\* been decoded, and then by the header size plus the announced body length;
\* it is always the sum of that over the headers decoded so far; a
\* read_header that would block or fails leaves it as it was.
C14_ReceivedBytesExact ==
    /\ [](received_bytes = FrameBytes(Decoded))
    /\ [][received_bytes' # received_bytes
            => /\ pc = "read"
               /\ pc' = "consume"
               /\ received_bytes' =
                      received_bytes + SizeOfMsgHeader + msg'.msg_len]_vars
    /\ [][\A e \in ReadErrors \cup {WouldBlock} :
            ReadHeader(FALSE, e) => received_bytes' = received_bytes]_vars

\* two frames were counted, one with a body, and a third read_header failed
C14_Witness ==
    /\ Len(Decoded) = 2
    /\ \E i \in 1..2 : Decoded[i].msg_len > 0
    /\ pc = "Failed"
    /\ error_log = <<UnexpectedEof>>
    /\ received_bytes > 2 * SizeOfMsgHeader

\* C15: the counters only increase, and received_bytes never exceeds the
\* number of bytes the loop thread has taken off the socket, by read_header
\* and by the handler's reads of the body.
C15_ReceivedAtMostRead ==
    /\ [](received_bytes <= socket_read)
    /\ [][received_bytes' >= received_bytes /\ sent_bytes' >= sent_bytes]_vars

\* C16: the retry slot holds at most one buffer; a write phase that finds the
\* slot occupied writes from that buffer and dequeues nothing; a buffer
\* enters the slot only in a write phase whose write of it returned
\* would-block, and leaves it only in a write phase, which either writes it
\* in full or ends the loop (a loop that has left keeps nothing).
C16_RetrySlot ==
    /\ [](Len(retry_send) <= 1)
    /\ [][(pc = "write" /\ retry_send # <<>> /\ pc' # pc)
            => /\ IsPrefix(send_channel, send_channel')
               /\ Written = Tag("q", Take(retry_send[1], Len(Written)))]_vars
    /\ [][(retry_send' # retry_send /\ retry_send' # <<>>)
            => /\ pc = "write"
               /\ pc' = "close"
               /\ retry_send' = <<MaybeData[1]>>
               /\ nwb' = nwb + 1
               /\ error_log' = error_log]_vars
    /\ [][(retry_send # <<>> /\ retry_send' = <<>>)
            => /\ pc = "write"
               /\ pc' = "Failed" \/ Written = Tag("q", retry_send[1])]_vars

\* a buffer kept after a would-block was written from the slot in a later
\* iteration while another buffer stayed in the queue
C16_Witness ==
    /\ nwb = 1
    /\ retry_send = <<>>
    /\ pc = "close"
    /\ error_log = <<>>
    /\ Len(enqueued) = 2
    /\ send_channel = <<enqueued[2]>>
    /\ Len(BytesOf("q")) >= Len(enqueued[1])

\* the bytes of the queued frames among the first n bytes on the socket
QueuedBefore(n) ==
    LET sel == SelectSeq(Take(wire, n), LAMBDA c : c[1] = "q")
    IN  [i \in 1..Len(sel) |-> sel[i][2]]

\* the points where a queued frame ends: after 0, 1, 2, ... whole frames
FrameEnds == {Concat(Take(enqueued, n)) : n \in 0..Len(enqueued)}

\* C17: frames are atomic on the socket: wherever a reply byte follows a
\* byte of a queued frame, the queued bytes written up to there are whole
\* frames, so no reply lies between the first and the last byte of a queued
\* frame; and no queued byte is written while a reply is being written.
C17_FramesAtomic ==
    /\ [](\A i \in 2..Len(wire) :
            (wire[i - 1][1] = "q" /\ wire[i][1] = "r")
                => QueuedBefore(i - 1) \in FrameEnds)
    /\ [][(pc = "respond")
            => \A i \in 1..Len(Written) : Written[i][1] = "r"]_vars

\* how many times the buffer f stands whole among the bytes bs
Occurrences(f, bs) ==
    Cardinality({i \in 1..(Len(bs) - Len(f) + 1) :
                    SubSeq(bs, i, i + Len(f) - 1) = f})

\* the n-th accepted buffer has been written in full: the write phase has
\* put on the socket as many whole copies of it as were accepted up to it
WrittenInFull(n) ==
    /\ n <= Len(enqueued)
    /\ Occurrences(enqueued[n], BytesOf("q"))
           >= Cardinality({j \in 1..n : enqueued[j] = enqueued[n]})

\* C18 as claimed: every buffer a send has accepted is written in full in
\* the end.  A loop that has left writes nothing more, so every buffer
\* accepted must have been written in full by the time the loop has left.
C18_AcceptedIsWritten ==
    (pc \in Terminal) => \A n \in 1..Len(enqueued) : WrittenInFull(n)

\* C18 amended: with a fairly scheduled loop and a socket that accepts the
\* write in the end, every buffer a send has accepted is eventually written
\* in full, unless the loop terminates first, on the close signal or on a
\* fatal error, which leaves the buffers still queued unwritten.
C18_WrittenUnlessTerminated ==
    \A n \in 1..MaxSends :
        (Len(enqueued) >= n) ~> ((pc \in Terminal) \/ WrittenInFull(n))

\* two buffers were accepted and both written in full, the socket having
\* blocked once on the way, and the loop is still running
C18_Witness ==
    /\ Len(enqueued) = 2
    /\ WrittenInFull(2)
    /\ nwb = 1
    /\ send_result["p1"] = "Ok"
    /\ pc = "read"

\* C19: a would-block from read_header at a frame boundary, or from the write
\* of the write phase, pushes no error and does not end the loop: after the
\* read the iteration goes on to its write phase, after the write the buffer
\* is in the retry slot and the iteration goes on to its close phase; a
\* write phase that pushed no error is always followed by the close phase.
C19_WouldBlockNotFatal ==
    /\ [][ReadHeader(FALSE, WouldBlock)
            => /\ pc' = "write"
               /\ UNCHANGED <<error_log, error_channel, retry_send>>
               /\ UNCHANGED <<received_bytes, wire, rx>>]_vars
    /\ [][\A k \in PartialCounts :
            WriteData(FALSE, WouldBlock, k)
                => /\ pc' = "close"
                   /\ retry_send' = <<MaybeData[1]>>
                   /\ UNCHANGED <<error_log, error_channel>>]_vars
    /\ [][(pc = "write" /\ pc' # pc /\ error_log' = error_log)
            => pc' = "close"]_vars

\* the read and the write of one iteration both hit would-block, the close
\* phase ran and the next iteration has begun with the buffer in the slot
C19_Witness ==
    /\ pc = "read"
    /\ nwb = 1
    /\ retry_send # <<>>
    /\ rx = <<>>
    /\ handled = <<>>
    /\ error_log = <<>>

\* C20: an error other than would-block from read_header, from the reply
\* write or from the write of the write phase is fatal: it is pushed, once,
\* and the loop leaves in that step, with no retry (the retry slot is left
\* empty by a failed write) and without the phases that remain; a read at a
\* frame boundary after the peer has closed fails with UnexpectedEof, which
\* is then the one error delivered.
C20_OtherErrorsFatal ==
    /\ [][\A e \in ReadErrors :
            ReadHeader(FALSE, e)
                => /\ pc' = "Failed"
                   /\ error_log' = Append(error_log, e)
                   /\ wire' = wire]_vars
    /\ [][\A e \in RespErrors \ {WouldBlock}, k \in PartialCounts :
            Respond(FALSE, e, k)
                => /\ pc' = "Failed"
                   /\ error_log' = Append(error_log, e)
                   /\ UNCHANGED <<send_channel, retry_send>>]_vars
    /\ [][\A e \in WriteErrors, k \in PartialCounts :
            WriteData(FALSE, e, k)
                => /\ pc' = "Failed"
                   /\ error_log' = Append(error_log, e)
                   /\ retry_send' = <<>>]_vars
    /\ [][(pc = "read" /\ pc' # pc /\ rx = <<>> /\ peer_closed)
            => (pc' = "Failed" /\ error_log' = <<UnexpectedEof>>)]_vars
    /\ [](Len(error_log) <= 1 /\ Len(polled) <= Len(error_log))
    /\ [](pc = "Failed" <=> Len(error_log) = 1)

\* the peer closed after a whole frame; the loop handled the frame, met the
\* end of the stream on its next read and left, and the owner has picked
\* the error up
C20_Witness ==
    /\ pc = "Failed"
    /\ peer_closed
    /\ Len(handled) = 1
    /\ error_log = <<UnexpectedEof>>
    /\ polled = <<UnexpectedEof>>
    /\ error_channel = <<>>

====
